---- MODULE Spec2Model ----
(***************************************************************************)
(* Model of the risk-triaged multimodal interaction orchestrator of the    *)
(* Healthcare-Assistant repository:                                        *)
(*   src/models/business_models.py   (UserSession, ConversationManager,    *)
(*                                    RiskAssessment)                      *)
(*   src/controllers/mental_health_controller.py (MentalHealthController)  *)
(*   src/core/audio_processor.py     (speech synthesis)                    *)
(*   src/backend/api.py              (the ask endpoint)                    *)
(*                                                                         *)
(* Strings are sequences of tokens.  Text typed or spoken by the user is   *)
(* a sequence of one-character tokens, so that Python's substring test     *)
(* and str.lower() are modelled character by character.  A string literal  *)
(* of the source is one token holding the literal, with the escapes that   *)
(* the Python literal has (the Python literal "\\n\\n" is the TLA+ string  *)
(* "\\n\\n": backslash, n, backslash, n).  String concatenation is \o.     *)
(* Confidences are in hundredths (0.95 is 95).                             *)
(***************************************************************************)
EXTENDS Integers, Sequences, FiniteSets, TLC

VARIABLES
    active_sessions,    \* ConversationManager.active_sessions : id -> UserSession
    session_summaries,  \* ConversationManager.session_summaries : id -> SessionSummary
    chat_history,       \* MentalHealthController.chat_history : id -> list of messages
    api_chat_history,   \* backend.api.chat_history : id -> list of messages
    requests,           \* the requests of the ask endpoint and of overlapping text
                        \* calls, in the order issued, each with its position
    ncalls,             \* top-level calls made so far, weighted by CallWeight
    last                \* the last call: its arguments, the providers' outcomes, its result

vars == <<active_sessions, session_summaries, chat_history, api_chat_history,
          requests, ncalls, last>>

\* ------------------------------------------------------------------ bounds
MaxCalls == 2   \* top-level calls in one run (see CallWeight)
MaxFrags == 2   \* fragments concatenated into an input of the risk assessor

\* ------------------------------------------------------- Python primitives
Max(a, b) == IF a >= b THEN a ELSE b

Range(s) == {s[i] : i \in 1..Len(s)}

\* Optional[...] : None is the empty sequence, a value v is <<v>>.
None == <<>>
Some(v) == <<v>>

\* Python truthiness of an Optional[str]: None and "" are falsy.
Truthy(opt) == opt # None /\ opt[1] # <<>>

\* A Python value handed to a function annotated `text: str`.
PyStr(s) == [tag |-> "str", v |-> s]
PyNone == [tag |-> "NoneType"]
PyInt(n) == [tag |-> "int", v |-> n]

\* The outcome of a call: a returned value or a raised exception.
Ret(v) == [raised |-> FALSE, value |-> v]
Raise(e) == [raised |-> TRUE, exc |-> e]

\* str.lower() on one character.
LowerChar(c) ==
    CASE c = "A" -> "a" [] c = "B" -> "b" [] c = "C" -> "c" [] c = "D" -> "d"
      [] c = "E" -> "e" [] c = "F" -> "f" [] c = "G" -> "g" [] c = "H" -> "h"
      [] c = "I" -> "i" [] c = "J" -> "j" [] c = "K" -> "k" [] c = "L" -> "l"
      [] c = "M" -> "m" [] c = "N" -> "n" [] c = "O" -> "o" [] c = "P" -> "p"
      [] c = "Q" -> "q" [] c = "R" -> "r" [] c = "S" -> "s" [] c = "T" -> "t"
      [] c = "U" -> "u" [] c = "V" -> "v" [] c = "W" -> "w" [] c = "X" -> "x"
      [] c = "Y" -> "y" [] c = "Z" -> "z" [] OTHER -> c

\* str.lower()
Lower(s) == [i \in 1..Len(s) |-> LowerChar(s[i])]

\* Python's `kw in s` on strings: kw occurs in s as a contiguous substring.
Contains(kw, s) ==
    \E i \in 1..(Len(s) - Len(kw) + 1) : SubSeq(s, i, i + Len(kw) - 1) = kw

\* ------------------------------------------------------------ RiskAssessment
high_risk_keywords ==
    << <<"s", "u", "i", "c", "i", "d", "e">>,
       <<"k", "i", "l", "l", " ", "m", "y", "s", "e", "l", "f">>,
       <<"e", "n", "d", " ", "i", "t", " ", "a", "l", "l">>,
       <<"w", "a", "n", "t", " ", "t", "o", " ", "d", "i", "e">>,
       <<"h", "u", "r", "t", " ", "m", "y", "s", "e", "l", "f">>,
       <<"s", "e", "l", "f", " ", "h", "a", "r", "m">>,
       <<"n", "o", " ", "p", "o", "i", "n", "t">>,
       <<"c", "a", "n", "'", "t", " ", "g", "o", " ", "o", "n">> >>

medium_risk_keywords ==
    << <<"h", "o", "p", "e", "l", "e", "s", "s">>,
       <<"w", "o", "r", "t", "h", "l", "e", "s", "s">>,
       <<"g", "i", "v", "e", " ", "u", "p">>,
       <<"c", "a", "n", "'", "t", " ", "c", "o", "p", "e">>,
       <<"e", "v", "e", "r", "y", "t", "h", "i", "n", "g", " ", "i", "s", " ", "w", "r", "o", "n", "g">>,
       <<"n", "o", " ", "o", "n", "e", " ", "c", "a", "r", "e", "s">>,
       <<"a", "l", "o", "n", "e">> >>

HIGH_RISK == 5      \* return 5  # Immediate attention needed
MEDIUM_RISK == 3    \* return 3  # Elevated concern
LOW_RISK == 1       \* return 1  # Low risk

\* `for keyword in keywords: if keyword in text_lower: return level`, from the
\* i-th keyword on; TRUE when the loop returns.
RECURSIVE LoopReturns(_, _, _)
LoopReturns(keywords, text_lower, i) ==
    IF i > Len(keywords) THEN FALSE
    ELSE IF Contains(keywords[i], text_lower) THEN TRUE
    ELSE LoopReturns(keywords, text_lower, i + 1)

\* The two loops of assess_text_risk with the medium-risk loop run first.
ScanMediumFirst(text_lower) ==
    IF LoopReturns(medium_risk_keywords, text_lower, 1) THEN MEDIUM_RISK
    ELSE IF LoopReturns(high_risk_keywords, text_lower, 1) THEN HIGH_RISK
    ELSE LOW_RISK

\* The two loops of assess_text_risk, on the lower-cased text.
ScanKeywords(text_lower) ==
    IF LoopReturns(high_risk_keywords, text_lower, 1) THEN HIGH_RISK
    ELSE IF LoopReturns(medium_risk_keywords, text_lower, 1) THEN MEDIUM_RISK
    ELSE LOW_RISK

\* RiskAssessment.assess_text_risk(text): `text.lower()` raises AttributeError
\* on a value that has no such method (None, an int).
assess_text_risk(text) ==
    IF text.tag = "str" THEN Ret(ScanKeywords(Lower(text.v)))
    ELSE Raise("AttributeError")

\* -------------------------------------------------------------- dictionaries
\* d[k] = v, adding the key when it is new.
Put(d, k, v) == [x \in (DOMAIN d) \cup {k} |-> IF x = k THEN v ELSE d[x]]

\* del d[k]
Del(d, k) == [x \in (DOMAIN d) \ {k} |-> d[x]]

EmptyDict == [x \in {} |-> 0]

\* --------------------------------------------------------- business models
\* InteractionType
CONVERSATION == "conversation"
CRISIS_INTERVENTION == "crisis_intervention"
ART_THERAPY == "art_therapy"
VOICE_THERAPY == "voice_therapy"

INITIAL_RISK == 1   \* UserSession.risk_level: int = 1

\* UserSession(session_id=, session_type=); the two timestamps are left out.
UserSession(session_id, session_type) ==
    [session_id |-> session_id,
     session_type |-> session_type,
     conversation_history |-> <<>>,
     risk_level |-> INITIAL_RISK]

\* add_interaction that keeps only the newest interaction.
AddInteractionReplacing(session, interaction_type, content, modality) ==
    [session EXCEPT !.conversation_history =
        <<[type |-> interaction_type, content |-> content, modality |-> modality]>>]

\* UserSession.add_interaction
add_interaction(session, interaction_type, content, modality) ==
    [session EXCEPT !.conversation_history =
        Append(@, [type |-> interaction_type, content |-> content, modality |-> modality])]

\* TherapeuticResponse(...): modality defaults to "text", emergency_flag to False.
TherapeuticResponse(content, response_type, modality, tools_used, confidence, emergency_flag) ==
    [content |-> content,
     response_type |-> response_type,
     modality |-> modality,
     tools_used |-> tools_used,
     confidence |-> confidence,
     emergency_flag |-> emergency_flag]

\* create_session rebinding active_sessions to a dictionary that holds the
\* new session alone.
CreateSessionAlone(st, session_id, session_type) ==
    [st EXCEPT !.active_sessions =
        Put(EmptyDict, session_id, UserSession(session_id, session_type))]

\* ConversationManager.create_session on the store st
create_session(st, session_id, session_type) ==
    [st EXCEPT !.active_sessions = Put(@, session_id, UserSession(session_id, session_type))]

\* ConversationManager.get_session: Optional[UserSession]
get_session(st, session_id) ==
    IF session_id \in DOMAIN st.active_sessions
    THEN Some(st.active_sessions[session_id]) ELSE None

\* ------------------------------------------------------------- core.agent
SystemMessage == [role |-> "system", content |-> <<"SYSTEM_PROMPT">>]
HumanMessage(content) == [role |-> "human", content |-> content]

\* ------------------------------------------------- MentalHealthController
IMMEDIATE_RESPONSE ==
    <<"I'm very concerned about you right now. Your safety is the most important thing.">>
TEXT_APOLOGY ==
    <<"I apologize, but I encountered an issue processing your message. Please try again, and if you're in crisis, please contact emergency services immediately.">>
IMAGE_APOLOGY ==
    <<"I had trouble analyzing your image. Could you try uploading it again or describe what you'd like me to help you with?">>
VOICE_APOLOGY ==
    <<"I had trouble understanding your voice message. Could you try again or type your message?">>
NO_INPUT == <<"I didn't receive any input to process.">>
IMAGE_ERROR_SENTINEL == <<"Error occurred during analysis">>
VOICE_ERROR_SENTINEL == <<"Error occurred during transcription">>
MULTIMODAL_IMAGE_QUERY ==
    <<"Analyze this image in the context of the user's overall query">>
DEFAULT_IMAGE_QUERY == <<"Please analyze this image for mental health insights">>

\* The separator written in the source, the Python literal "\\n\\n":
\* a backslash, the letter n, a backslash, the letter n.
SEPARATOR == <<"\\n\\n">>

CONF_CRISIS == 95           \* confidence=0.95
CONF_NORMAL == 80           \* confidence=0.8
CONF_IMAGE == 80            \* confidence=0.8
CONF_TRANSCRIPTION == 90    \* confidence=0.9
CONF_ERROR == 0             \* confidence=0.0
EMERGENCY_THRESHOLD == 4    \* if risk_level >= 4
URGENCY_ERROR == 1          \* urgency_level=1

\* _get_or_create_session without the lookup: a session is created on every
\* call.
GetOrCreateAlwaysCreates(st, session_id, session_type) ==
    [create_session(st, session_id, session_type) EXCEPT
        !.chat_history = Put(@, session_id, <<SystemMessage>>)]

\* _get_or_create_session creating the session without the agent's
\* conversation log.
GetOrCreateWithoutChatHistory(st, session_id, session_type) ==
    IF get_session(st, session_id) # None THEN st
    ELSE create_session(st, session_id, session_type)

\* MentalHealthController._get_or_create_session
_get_or_create_session(st, session_id, session_type) ==
    IF get_session(st, session_id) # None THEN st
    ELSE [create_session(st, session_id, session_type) EXCEPT
            !.chat_history = Put(@, session_id, <<SystemMessage>>)]

\* MentalHealthController._assess_risk_level
_assess_risk_level(content, modality) ==
    IF modality = "text" THEN assess_text_risk(content) ELSE Ret(LOW_RISK)

\* MentalHealthController._handle_emergency: the EmergencyAssessment
_handle_emergency(session_id, content) ==
    [session_id |-> session_id,
     risk_level |-> HIGH_RISK,
     immediate_response |-> IMMEDIATE_RESPONSE,
     requires_human_intervention |-> TRUE]

\* The response built by the except branch of process_text_interaction.
TextErrorResponse ==
    TherapeuticResponse(TEXT_APOLOGY, CONVERSATION, "text", <<"error_handler">>,
                        CONF_ERROR, TRUE)

\* session.risk_level = max(session.risk_level, risk_level), replaced by a
\* plain assignment.
RiskAssign(current, risk_level) == risk_level

\* session.risk_level = max(session.risk_level, risk_level)
RiskUpdate(current, risk_level) == Max(current, risk_level)

\* process_text_interaction up to the agent call (lines 88-103, 117-120): the
\* session is fetched or created, the risk is assessed and folded into the
\* session, the message is appended to the agent's conversation log.
\* `raised` when an exception sends control to the except branch.
TextBegin(st, session_id, message) ==
    LET st1 == _get_or_create_session(st, session_id, "general")
        r == _assess_risk_level(PyStr(message), "text")
    IN  IF r.raised THEN [st |-> st1, raised |-> TRUE, risk_level |-> 0]
        ELSE LET st2 == [st1 EXCEPT !.active_sessions[session_id].risk_level =
                                        RiskUpdate(@, r.value)]
             IN  IF session_id \notin DOMAIN st2.chat_history   \* KeyError
                 THEN [st |-> st2, raised |-> TRUE, risk_level |-> r.value]
                 ELSE [st |-> [st2 EXCEPT !.chat_history[session_id] =
                                    Append(@, HumanMessage(message))],
                       raised |-> FALSE, risk_level |-> r.value]

\* The response of the crisis branch (lines 106-115).
CrisisResponse(emergency_assessment, tool_called, ai_response) ==
    TherapeuticResponse(emergency_assessment.immediate_response \o SEPARATOR \o ai_response,
                        CRISIS_INTERVENTION, "text",
                        <<tool_called, "emergency_assessment">>, CONF_CRISIS, TRUE)

\* The normal branch answering with the crisis pre-response prepended.
NormalResponsePrepended(tool_called, ai_response) ==
    TherapeuticResponse(IMMEDIATE_RESPONSE \o SEPARATOR \o ai_response,
                        CONVERSATION, "text", <<tool_called>>, CONF_NORMAL, FALSE)

\* The response of the normal branch (lines 125-130).
NormalResponse(tool_called, ai_response) ==
    TherapeuticResponse(ai_response, CONVERSATION, "text", <<tool_called>>,
                        CONF_NORMAL, FALSE)

\* process_text_interaction from the agent's answer on (lines 104-150).
\* agent is the outcome of `await parse_response(stream)`.
TextFinish(st, session_id, message, risk_level, agent) ==
    IF ~agent.ok THEN [st |-> st, response |-> TextErrorResponse]
    ELSE
      LET st1 == IF risk_level >= EMERGENCY_THRESHOLD THEN st
                 ELSE [st EXCEPT !.chat_history[session_id] =
                            Append(@, HumanMessage(agent.reply))]
          response == IF risk_level >= EMERGENCY_THRESHOLD
                      THEN CrisisResponse(_handle_emergency(session_id, message),
                                          agent.tool, agent.reply)
                      ELSE NormalResponse(agent.tool, agent.reply)
      IN  [st |-> [st1 EXCEPT !.active_sessions[session_id] =
                        add_interaction(@, CONVERSATION, message, "text")],
           response |-> response]

\* process_text_interaction with a crisis branch that answers with the
\* emergency assessment alone, without calling the agent.
TextCrisisShortCircuit(st, session_id, message, agent) ==
    LET b == TextBegin(st, session_id, message)
    IN  IF b.raised
        THEN [st |-> b.st, response |-> TextErrorResponse, agent_calls |-> <<>>]
        ELSE IF b.risk_level >= EMERGENCY_THRESHOLD
        THEN [st |-> [b.st EXCEPT !.active_sessions[session_id] =
                        add_interaction(@, CONVERSATION, message, "text")],
              response |-> CrisisResponse(_handle_emergency(session_id, message),
                                          "None", <<>>),
              agent_calls |-> <<>>]
        ELSE LET f == TextFinish(b.st, session_id, message, b.risk_level, agent)
             IN  [st |-> f.st, response |-> f.response,
                  agent_calls |-> <<b.st.chat_history[session_id]>>]

\* MentalHealthController.process_text_interaction, start to return.
\* agent_calls lists the message lists handed to the agent.
process_text_interaction(st, session_id, message, agent) ==
    LET b == TextBegin(st, session_id, message)
    IN  IF b.raised
        THEN [st |-> b.st, response |-> TextErrorResponse, agent_calls |-> <<>>]
        ELSE LET f == TextFinish(b.st, session_id, message, b.risk_level, agent)
             IN  [st |-> f.st, response |-> f.response,
                  agent_calls |-> <<b.st.chat_history[session_id]>>]

\* The except branch of process_image_interaction keeping the confidence and
\* the analysis text of the success path.
ImageErrorAsSuccess(image_path) ==
    [response |-> TherapeuticResponse(IMAGE_APOLOGY, ART_THERAPY, "text",
                                      <<"error_handler">>, CONF_IMAGE, FALSE),
     analysis |-> [image_path |-> image_path,
                   analysis_text |-> <<>>,
                   confidence_score |-> CONF_IMAGE]]

\* The (response, analysis) pair built by the except branch of
\* process_image_interaction.
ImageError(image_path) ==
    [response |-> TherapeuticResponse(IMAGE_APOLOGY, ART_THERAPY, "text",
                                      <<"error_handler">>, CONF_ERROR, FALSE),
     analysis |-> [image_path |-> image_path,
                   analysis_text |-> IMAGE_ERROR_SENTINEL,
                   confidence_score |-> CONF_ERROR]]

\* MentalHealthController.process_image_interaction.  vision is the outcome
\* of process_image_for_analysis followed by analyze_image_with_groq:
\* "no_image" (no base64 data: ValueError), "raise", or "ok" with the text.
process_image_interaction(st, session_id, image_path, query, vision) ==
    LET st1 == _get_or_create_session(st, session_id, "general")
    IN  IF vision.kind # "ok"
        THEN [st |-> st1] @@ ImageError(image_path)
        ELSE [st |-> [st1 EXCEPT !.active_sessions[session_id] =
                        add_interaction(@, ART_THERAPY,
                                        <<"Image analysis: ">> \o query, "image")],
              response |-> TherapeuticResponse(vision.text, ART_THERAPY, "visual",
                                               <<"analyze_uploaded_image">>,
                                               CONF_IMAGE, FALSE),
              analysis |-> [image_path |-> image_path,
                            analysis_text |-> vision.text,
                            confidence_score |-> CONF_IMAGE]]

\* The (response, analysis) pair built by the except branch of
\* process_voice_interaction.
VoiceError(audio_path) ==
    [response |-> TherapeuticResponse(VOICE_APOLOGY, VOICE_THERAPY, "text",
                                      <<"error_handler">>, CONF_ERROR, FALSE),
     analysis |-> [audio_path |-> audio_path,
                   transcription |-> VOICE_ERROR_SENTINEL,
                   urgency_level |-> URGENCY_ERROR,
                   therapeutic_response |-> <<>>]]

\* The voice response carrying the inner tool list without the marker.
VoiceWrapWithoutMarker(therapeutic_response) ==
    TherapeuticResponse(therapeutic_response.content, VOICE_THERAPY, "audio",
                        therapeutic_response.tools_used,
                        therapeutic_response.confidence,
                        therapeutic_response.emergency_flag)

\* The voice response that wraps the inner text response (lines 236-243).
VoiceWrap(therapeutic_response) ==
    TherapeuticResponse(therapeutic_response.content, VOICE_THERAPY, "audio",
                        <<"process_voice_message">> \o therapeutic_response.tools_used,
                        therapeutic_response.confidence,
                        therapeutic_response.emergency_flag)

\* The transcription-only response with the confidence of the text handler's
\* normal branch.
TranscriptionOnlyNormalConfidence(transcription) ==
    TherapeuticResponse(transcription, VOICE_THERAPY, "audio",
                        <<"transcription_only">>, CONF_NORMAL, FALSE)

\* The transcription-only response (lines 245-251).
TranscriptionOnlyResponse(transcription) ==
    TherapeuticResponse(transcription, VOICE_THERAPY, "audio",
                        <<"transcription_only">>, CONF_TRANSCRIPTION, FALSE)

\* MentalHealthController.process_voice_interaction.  trans is the outcome of
\* audio_processor.transcribe_with_groq ("raise", or "ok" with the text, which
\* may be empty: ValueError); agent the outcome of the agent call of the inner
\* text interaction.
process_voice_interaction(st, session_id, audio_path, transcription_only, trans, agent) ==
    LET st1 == _get_or_create_session(st, session_id, "general")
    IN  IF trans.kind # "ok" \/ trans.text = <<>>
        THEN [st |-> st1, agent_calls |-> <<>>] @@ VoiceError(audio_path)
        ELSE
          LET transcription == trans.text
              r == _assess_risk_level(PyStr(transcription), "text")
          IN  IF r.raised
              THEN [st |-> st1, agent_calls |-> <<>>] @@ VoiceError(audio_path)
              ELSE
                LET st2 == [st1 EXCEPT !.active_sessions[session_id].risk_level =
                                            RiskUpdate(@, r.value)]
                    inner == process_text_interaction(st2, session_id, transcription, agent)
                    st3 == IF transcription_only THEN st2 ELSE inner.st
                IN  [st |-> [st3 EXCEPT !.active_sessions[session_id] =
                                add_interaction(@, VOICE_THERAPY, transcription, "audio")],
                     response |-> IF transcription_only
                                  THEN TranscriptionOnlyResponse(transcription)
                                  ELSE VoiceWrap(inner.response),
                     analysis |-> [audio_path |-> audio_path,
                                   transcription |-> transcription,
                                   urgency_level |-> r.value,
                                   therapeutic_response |->
                                       IF transcription_only THEN <<>>
                                       ELSE inner.response.content],
                     agent_calls |-> IF transcription_only THEN <<>>
                                     ELSE inner.agent_calls]

\* sep.join(parts)
RECURSIVE Join(_, _)
Join(parts, sep) ==
    IF parts = <<>> THEN <<>>
    ELSE IF Len(parts) = 1 THEN parts[1]
    ELSE parts[1] \o sep \o Join(Tail(parts), sep)

\* highest_confidence = max(highest_confidence, response.confidence)
ConfidenceUpdate(highest_confidence, confidence) == Max(highest_confidence, confidence)

\* The text step fed by the supplied text alone, whatever was transcribed.
TextInputSuppliedOnly(text, transcription) == text

\* `if not request.text: request.text = voice_analysis.transcription`
TextInputAfterAudio(text, transcription) ==
    IF ~Truthy(text) THEN Some(transcription) ELSE text

\* response_parts after the three steps: the image step appends first, then the
\* audio step, then the text step.
Fragments(image_part, audio_part, text_part) ==
    image_part \o audio_part \o text_part

\* tools_used without the tools of the audio step.
ToolsWithoutAudio(image_tools, audio_tools, text_tools) ==
    Range(image_tools \o text_tools)

\* list(set(tools_used)): the order of the list is that of a Python set, which
\* the language leaves open; the model keeps the set.
ToolsUsed(image_tools, audio_tools, text_tools) ==
    Range(image_tools \o audio_tools \o text_tools)

\* The image step of process_multimodal_interaction (lines 289-298): the
\* store after it and the fragment it appends to response_parts, if any.
MultimodalImageStep(st, req, vision) ==
    IF ~Truthy(req.image_path) THEN [st |-> st, part |-> <<>>]
    ELSE LET img == process_image_interaction(st, req.session_id, req.image_path[1],
                                              MULTIMODAL_IMAGE_QUERY, vision)
         IN  [st |-> img.st,
              part |-> <<[label |-> <<"Image Analysis: ">>, modality |-> "image",
                          response |-> img.response]>>]

\* The audio step (lines 301-314): also request.text as it stands after the
\* step, and the message lists the step handed to the agent.
MultimodalAudioStep(st, req, trans, agent1) ==
    IF ~Truthy(req.audio_path)
    THEN [st |-> st, part |-> <<>>, text |-> req.text, agent_calls |-> <<>>]
    ELSE LET voice == process_voice_interaction(st, req.session_id, req.audio_path[1],
                                                FALSE, trans, agent1)
         IN  [st |-> voice.st,
              part |-> <<[label |-> <<"Voice Analysis: ">>, modality |-> "audio",
                          response |-> voice.response]>>,
              text |-> TextInputAfterAudio(req.text, voice.analysis.transcription),
              agent_calls |-> voice.agent_calls]

\* The text step (lines 317-323), on the supplied or transcribed text.
MultimodalTextStep(st, session_id, text, agent2) ==
    IF ~Truthy(text) THEN [st |-> st, part |-> <<>>, agent_calls |-> <<>>]
    ELSE LET txt == process_text_interaction(st, session_id, text[1], agent2)
         IN  [st |-> txt.st,
              part |-> <<[label |-> <<"AI Response: ">>, modality |-> "text",
                          response |-> txt.response]>>,
              agent_calls |-> txt.agent_calls]

\* tools_used of the response a step appended, [] when the step was skipped.
PartTools(part) == IF part = <<>> THEN <<>> ELSE part[1].response.tools_used

\* highest_confidence after a step that started from `highest`.
PartConfidence(highest, part) ==
    IF part = <<>> THEN highest
    ELSE ConfidenceUpdate(highest, part[1].response.confidence)

\* The combined content as the join alone, without the branch on an empty
\* response_parts.
CombinedContentJoinOnly(response_parts) == Join(response_parts, SEPARATOR)

\* combined_content (line 326)
CombinedContent(response_parts) ==
    IF response_parts # <<>> THEN Join(response_parts, SEPARATOR) ELSE NO_INPUT

\* Combining the steps (lines 326-344): the response and the session entry.
\* image_part, audio_part, text_part are what the steps appended; text is
\* request.text after the audio step.
MultimodalCombine(st, req, image_part, audio_part, text_part, text) ==
    LET fragments == Fragments(image_part, audio_part, text_part)
        response_parts == [i \in 1..Len(fragments) |->
                              fragments[i].label \o fragments[i].response.content]
        highest_confidence ==
            PartConfidence(PartConfidence(PartConfidence(0, image_part), audio_part),
                           text_part)
        emergency_detected ==
            \/ audio_part # <<>> /\ audio_part[1].response.emergency_flag
            \/ text_part # <<>> /\ text_part[1].response.emergency_flag
        combined_content == CombinedContent(response_parts)
        tools_used ==
            ToolsUsed(PartTools(image_part), PartTools(audio_part), PartTools(text_part))
    IN  [st |-> [st EXCEPT !.active_sessions[req.session_id] =
                    add_interaction(@, CONVERSATION,
                        <<"Multimodal interaction: ">> \o
                            (IF Truthy(text) THEN text[1] ELSE <<"No text">>),
                        "multimodal")],
         response |-> TherapeuticResponse(combined_content, CONVERSATION, "multimodal",
                                          tools_used, highest_confidence,
                                          emergency_detected),
         fragments |-> fragments]

\* ------------------------------------------------------ speech synthesis
\* The controller calls text_to_speech_elevenlabs and text_to_speech_gtts;
\* the functions of these names in the repository are the AudioProcessor
\* methods.  A speech call returns the path of the file it wrote (one token)
\* or None, together with the providers it called, in order.
GTTS_FILE == <<"gtts.mp3">>
ELEVENLABS_FILE == <<"elevenlabs.mp3">>

\* AudioProcessor.text_to_speech_gtts.  gtts is the outcome of the gTTS
\* request and of saving its file: "ok" or "raise".
text_to_speech_gtts(text, gtts) ==
    [value |-> IF gtts = "ok" THEN Some(GTTS_FILE) ELSE None,
     providers |-> <<"gtts">>]

\* text_to_speech_elevenlabs with an except branch that gives up (returns
\* None) instead of calling gTTS.
ElevenlabsWithoutFallback(text, env, eleven, gtts) ==
    IF ~env.api_key \/ env.library = "none" THEN text_to_speech_gtts(text, gtts)
    ELSE IF env.library = "client" /\ eleven = "ok"
         THEN [value |-> Some(ELEVENLABS_FILE), providers |-> <<"elevenlabs">>]
         ELSE [value |-> None, providers |-> <<"elevenlabs">>]

\* AudioProcessor.text_to_speech_elevenlabs.  env says whether
\* ELEVENLABS_API_KEY is set and which import of lines 28-39 succeeded:
\* "client" (ElevenLabs is bound), "legacy" (generate and save are bound,
\* ElevenLabs is not: `if ElevenLabs:` raises NameError inside the try block)
\* or "none" (all names are None).  eleven is the outcome of the try block
\* (the generate call and the writing of the file): "ok" or "raise".
text_to_speech_elevenlabs(text, env, eleven, gtts) ==
    IF ~env.api_key THEN text_to_speech_gtts(text, gtts)
    ELSE IF env.library = "none" THEN text_to_speech_gtts(text, gtts)
    ELSE IF env.library = "client" /\ eleven = "ok"
         THEN [value |-> Some(ELEVENLABS_FILE), providers |-> <<"elevenlabs">>]
         ELSE LET fallback == text_to_speech_gtts(text, gtts)   \* line 314
              IN  [value |-> fallback.value,
                   providers |-> <<"elevenlabs">> \o fallback.providers]

\* MentalHealthController.generate_voice_response: `audio_file or ""`.
\* Neither speech function raises, so the except branch is left out.
generate_voice_response(text, use_premium, env, eleven, gtts) ==
    LET r == IF use_premium THEN text_to_speech_elevenlabs(text, env, eleven, gtts)
             ELSE text_to_speech_gtts(text, gtts)
    IN  [result |-> IF Truthy(r.value) THEN r.value[1] ELSE <<>>,
         providers |-> r.providers]

\* end_session without the lookup of lines 217-219: an unknown id gets a
\* summary of an empty session.
EndSessionWithoutLookup(st, session_id) ==
    LET summary == [session_id |-> session_id, interaction_count |-> 0,
                    modalities_used |-> {}, tools_utilized |-> {}]
    IN  [st |-> [st EXCEPT !.session_summaries = Put(@, session_id, summary),
                           !.active_sessions = Del(@, session_id)],
         summary |-> Some(summary)]

\* ConversationManager.end_session: the SessionSummary (None for an unknown
\* id) and the store without the session.  The duration is left out.
end_session(st, session_id) ==
    IF session_id \notin DOMAIN st.active_sessions
    THEN [st |-> st, summary |-> None]
    ELSE LET session == st.active_sessions[session_id]
             summary == [session_id |-> session_id,
                         interaction_count |-> Len(session.conversation_history),
                         modalities_used |->
                             {session.conversation_history[i].modality :
                                 i \in 1..Len(session.conversation_history)},
                         \* no interaction carries a "tool_used" key
                         tools_utilized |-> {}]
         IN  [st |-> [st EXCEPT !.session_summaries = Put(@, session_id, summary),
                                !.active_sessions = Del(@, session_id)],
              summary |-> Some(summary)]

\* MentalHealthController.clear_session
clear_session(st, session_id) ==
    LET st1 == IF session_id \in DOMAIN st.chat_history
               THEN [st EXCEPT !.chat_history[session_id] = <<SystemMessage>>]
               ELSE st
    IN  IF get_session(st1, session_id) # None
        THEN [st |-> end_session(st1, session_id).st, result |-> TRUE]
        ELSE [st |-> st1, result |-> FALSE]

\* ------------------------------------------------- inputs and providers
SessionIds == {"s1"}

\* clear_session is also called with an id that no handler ever saw.
ClearIds == SessionIds \cup {"never-seen-id"}

MSG_LOW == <<"h", "i">>                                        \* risk 1
MSG_MEDIUM == <<"A", "l", "o", "n", "e">>                      \* risk 3
MSG_HIGH == <<"E", "N", "D", " ", "I", "T", " ", "A", "L", "L">>   \* risk 5

\* Query.message has min_length=1.
Messages == {MSG_LOW, MSG_MEDIUM, MSG_HIGH}

\* What the transcriber may return: also the empty string.
Transcripts == {<<>>, MSG_LOW, MSG_HIGH}

\* MultimodalRequest.text : Optional[str]
MultimodalTexts == {None, Some(MSG_LOW), Some(MSG_HIGH)}
ImagePaths == {None, Some(<<"drawing.png">>)}
AudioPaths == {None, Some(<<"voice.wav">>)}
QueryTypes == {"therapy"}

\* SessionTypeEnum
SessionTypes == {"general", "therapy", "emergency", "analysis"}

\* await parse_response(stream): a (tool_called, ai_response) pair, or an
\* exception out of the agent.
AgentFailure == [ok |-> FALSE, tool |-> "None", reply |-> <<>>]
AgentOutcomes ==
    {AgentFailure,
     [ok |-> TRUE, tool |-> "None", reply |-> <<"I hear you.">>],
     [ok |-> TRUE, tool |-> "get_daily_affirmation", reply |-> <<"You are enough.">>]}

VisionOutcomes ==
    {[kind |-> "ok", text |-> <<"The drawing uses dark colours.">>],
     [kind |-> "no_image", text |-> <<>>],
     [kind |-> "raise", text |-> <<>>]}

TranscriptionOutcomes ==
    {[kind |-> "ok", text |-> t] : t \in Transcripts}
        \cup {[kind |-> "raise", text |-> <<>>]}

\* A provider that the call does not reach has no outcome to choose.
Unused == [kind |-> "unused", text |-> <<>>]
AgentUnused == [ok |-> FALSE, tool |-> "unused", reply |-> <<>>]

\* generate_voice_response(text, use_premium); a provider that the call does
\* not reach has the outcome "unused".
VoiceTexts == {<<"I hear you.">>}
SpeechEnvs == [api_key : BOOLEAN, library : {"client", "legacy", "none"}]
SpeechOutcomes == {"ok", "raise"}

\* What a multimodal call counts for in MaxCalls: two when the request carries
\* two or three inputs, one otherwise.
CallWeight(text, image_path, audio_path) ==
    IF \/ Truthy(text) /\ Truthy(image_path)
       \/ Truthy(text) /\ Truthy(audio_path)
       \/ Truthy(image_path) /\ Truthy(audio_path)
    THEN 2 ELSE 1

\* ------------------------------------------------------------ state machine
Store ==
    [active_sessions |-> active_sessions,
     session_summaries |-> session_summaries,
     chat_history |-> chat_history]

SetStore(st) ==
    /\ active_sessions' = st.active_sessions
    /\ session_summaries' = st.session_summaries
    /\ chat_history' = st.chat_history

Init ==
    /\ active_sessions = EmptyDict
    /\ session_summaries = EmptyDict
    /\ chat_history = EmptyDict
    /\ api_chat_history = EmptyDict
    /\ requests = <<>>
    /\ ncalls = 0
    /\ last = [op |-> "init"]

\* await controller.process_text_interaction(Query(message, session_id))
TextCall ==
    /\ ncalls < MaxCalls
    /\ \E sid \in SessionIds, message \in Messages, agent \in AgentOutcomes :
        \E r \in {process_text_interaction(Store, sid, message, agent)} :
            /\ SetStore(r.st)
            /\ last' = [op |-> "text", session_id |-> sid, message |-> message,
                        agent |-> agent, response |-> r.response,
                        agent_calls |-> r.agent_calls]
    /\ ncalls' = ncalls + 1
    /\ UNCHANGED <<api_chat_history, requests>>

\* await controller.process_image_interaction(ImageAnalysisRequest(...))
ImageCall ==
    /\ ncalls < MaxCalls
    /\ \E sid \in SessionIds, vision \in VisionOutcomes :
        \E r \in {process_image_interaction(Store, sid, <<"drawing.png">>,
                                              DEFAULT_IMAGE_QUERY, vision)} :
            /\ SetStore(r.st)
            /\ last' = [op |-> "image", session_id |-> sid, vision |-> vision,
                        response |-> r.response, analysis |-> r.analysis]
    /\ ncalls' = ncalls + 1
    /\ UNCHANGED <<api_chat_history, requests>>

\* await controller.process_voice_interaction(AudioProcessRequest(...))
VoiceCall ==
    /\ ncalls < MaxCalls
    /\ \E sid \in SessionIds, transcription_only \in BOOLEAN,
          trans \in TranscriptionOutcomes :
        \E agent \in (IF trans.kind = "ok" /\ trans.text # <<>> /\ ~transcription_only
                      THEN AgentOutcomes ELSE {AgentUnused}) :
        \E r \in {process_voice_interaction(Store, sid, <<"voice.wav">>,
                                              transcription_only, trans, agent)} :
            /\ SetStore(r.st)
            /\ last' = [op |-> "voice", session_id |-> sid,
                        transcription_only |-> transcription_only,
                        trans |-> trans, agent |-> agent,
                        response |-> r.response, analysis |-> r.analysis,
                        agent_calls |-> r.agent_calls]
    /\ ncalls' = ncalls + 1
    /\ UNCHANGED <<api_chat_history, requests>>

\* MentalHealthController.process_multimodal_interaction on the store.  req
\* is the MultimodalRequest; vision, trans, agent1 (the agent call of the audio
\* step) and agent2 (the agent call of the text step) are the providers'
\* outcomes.  No statement of the try block raises, so its except branch is
\* left out.
process_multimodal_interaction(req, vision, trans, agent1, agent2) ==
    \E st0 \in {_get_or_create_session(Store, req.session_id, req.query_type)} :
    \E i \in {MultimodalImageStep(st0, req, vision)} :
    \E a \in {MultimodalAudioStep(i.st, req, trans, agent1)} :
    \E t \in {MultimodalTextStep(a.st, req.session_id, a.text, agent2)} :
    \E r \in {MultimodalCombine(t.st, req, i.part, a.part, t.part, a.text)} :
        /\ SetStore(r.st)
        /\ last' = [op |-> "multimodal", session_id |-> req.session_id,
                    request |-> req, vision |-> vision, trans |-> trans,
                    agent1 |-> agent1, agent2 |-> agent2,
                    response |-> r.response, fragments |-> r.fragments,
                    text_input |-> a.text,
                    agent_calls |-> a.agent_calls \o t.agent_calls]
        /\ UNCHANGED <<api_chat_history, requests>>

\* await controller.process_multimodal_interaction(MultimodalRequest(...))
MultimodalCall ==
    \E text \in MultimodalTexts, image_path \in ImagePaths, audio_path \in AudioPaths :
        /\ ncalls + CallWeight(text, image_path, audio_path) <= MaxCalls
        /\ ncalls' = ncalls + CallWeight(text, image_path, audio_path)
        /\ \E sid \in SessionIds, query_type \in QueryTypes,
              vision \in (IF Truthy(image_path) THEN VisionOutcomes ELSE {Unused}),
              trans \in (IF Truthy(audio_path) THEN TranscriptionOutcomes ELSE {Unused}) :
            \E agent1 \in (IF trans.kind = "ok" /\ trans.text # <<>>
                           THEN AgentOutcomes ELSE {AgentUnused}),
               agent2 \in (IF Truthy(text) \/ Truthy(audio_path)
                           THEN AgentOutcomes ELSE {AgentUnused}) :
            \E req \in {[text |-> text, image_path |-> image_path,
                         audio_path |-> audio_path, session_id |-> sid,
                         query_type |-> query_type]} :
                process_multimodal_interaction(req, vision, trans, agent1, agent2)

\* await controller.generate_voice_response(text, use_premium)
GenerateVoiceCall ==
    /\ ncalls < MaxCalls
    /\ \E text \in VoiceTexts, use_premium \in BOOLEAN, env \in SpeechEnvs :
        \E eleven \in (IF ~(use_premium /\ env.api_key) \/ env.library = "none"
                       THEN {"unused"}
                       ELSE IF env.library = "legacy" THEN {"raise"}
                       ELSE SpeechOutcomes) :
        \E gtts \in (IF eleven = "ok" THEN {"unused"} ELSE SpeechOutcomes) :
        \E r \in {generate_voice_response(text, use_premium, env, eleven, gtts)} :
            /\ last' = [op |-> "generate_voice", text |-> text,
                        use_premium |-> use_premium, env |-> env,
                        eleven |-> eleven, gtts |-> gtts,
                        result |-> r.result, providers |-> r.providers]
    /\ ncalls' = ncalls + 1
    /\ UNCHANGED <<active_sessions, session_summaries, chat_history,
                   api_chat_history, requests>>

\* controller.clear_session(session_id)
ClearSessionCall ==
    /\ \E sid \in ClearIds :
        \E r \in {clear_session(Store, sid)} :
            /\ SetStore(r.st)
            /\ last' = [op |-> "clear", session_id |-> sid, result |-> r.result]
    /\ UNCHANGED ncalls
    /\ UNCHANGED <<api_chat_history, requests>>

Next ==
    \/ TextCall
    \/ ImageCall
    \/ VoiceCall
    \/ MultimodalCall
    \/ GenerateVoiceCall
    \/ ClearSessionCall

Spec == Init /\ [][Next]_vars

\* ------------------------------------------------------------ backend.api
\* ask up to its await (lines 13-19): the conversation of the session is
\* created when the id is new, and the message is appended.  h is chat_history.
AskBegin(h, session_id, message) ==
    LET h1 == IF session_id \notin DOMAIN h
              THEN Put(h, session_id, <<SystemMessage>>) ELSE h
    IN  [h1 EXCEPT ![session_id] = Append(@, HumanMessage(message))]

\* ask from the agent's answer on (lines 20-24).  The endpoint has no try
\* block: an exception out of the agent leaves it.
AskFinish(h, session_id, agent) ==
    IF ~agent.ok THEN [h |-> h, outcome |-> Raise("Exception")]
    ELSE [h |-> [h EXCEPT ![session_id] = Append(@, HumanMessage(agent.reply))],
          outcome |-> Ret([response |-> agent.reply, tool_called |-> agent.tool])]

\* backend.api.ask, start to return.
ask(h, session_id, message, agent) ==
    AskFinish(AskBegin(h, session_id, message), session_id, agent)

\* The ask endpoint is called for ids it has seen and for new ones.
AskSessionIds == {"s1", "s2"}

\* A request as `requests` records it: at the await ("pending"), returned
\* ("done") or left by an exception ("failed").
Request(kind, session_id, message, risk_level, state, reply) ==
    [kind |-> kind, session_id |-> session_id, message |-> message,
     risk_level |-> risk_level, state |-> state, reply |-> reply]

Completed(request, agent) ==
    [request EXCEPT !.state = IF agent.ok THEN "done" ELSE "failed",
                    !.reply = agent.reply]

\* POST /ask, one call after the other
AskCall ==
    /\ ncalls < MaxCalls
    /\ \E sid \in AskSessionIds, message \in Messages, agent \in AgentOutcomes :
        \E r \in {ask(api_chat_history, sid, message, agent)} :
            /\ api_chat_history' = r.h
            /\ requests' = Append(requests,
                                  Completed(Request("ask", sid, message, 0, "pending", <<>>),
                                            agent))
            /\ last' = [op |-> "ask", session_id |-> sid, message |-> message,
                        agent |-> agent, outcome |-> r.outcome]
    /\ ncalls' = ncalls + 1
    /\ UNCHANGED <<active_sessions, session_summaries, chat_history>>

NextAsk == AskCall

SpecAsk == Init /\ [][NextAsk]_vars

\* ------------------------------------------------- overlapping requests
\* Each request is an asynchronous task that is suspended at its agent call;
\* a second request may be issued while the first is suspended, and the
\* agent's answers arrive in any order.

\* POST /ask arrives and runs to the await of line 20.
AskIssue ==
    /\ ncalls < MaxCalls
    /\ \E sid \in SessionIds, message \in Messages :
        /\ api_chat_history' = AskBegin(api_chat_history, sid, message)
        /\ requests' = Append(requests, Request("ask", sid, message, 0, "pending", <<>>))
        /\ last' = [op |-> "ask_issue", session_id |-> sid, message |-> message]
    /\ ncalls' = ncalls + 1
    /\ UNCHANGED <<active_sessions, session_summaries, chat_history>>

\* The agent answers a suspended ask, which runs to its end.
AskComplete ==
    \E i \in 1..Len(requests), agent \in AgentOutcomes :
        /\ requests[i].kind = "ask"
        /\ requests[i].state = "pending"
        /\ \E r \in {AskFinish(api_chat_history, requests[i].session_id, agent)} :
            /\ api_chat_history' = r.h
            /\ last' = [op |-> "ask_complete", index |-> i,
                        session_id |-> requests[i].session_id,
                        agent |-> agent, outcome |-> r.outcome]
        /\ requests' = [requests EXCEPT ![i] = Completed(@, agent)]
        /\ UNCHANGED <<active_sessions, session_summaries, chat_history, ncalls>>

\* process_text_interaction is called and runs to the await of line 104 or 121.
TextIssue ==
    /\ ncalls < MaxCalls
    /\ \E sid \in SessionIds, message \in Messages :
        \E b \in {TextBegin(Store, sid, message)} :
            /\ SetStore(b.st)
            /\ requests' = Append(requests,
                                  Request("text", sid, message, b.risk_level,
                                          IF b.raised THEN "failed" ELSE "pending", <<>>))
            /\ last' = [op |-> "text_issue", session_id |-> sid, message |-> message]
    /\ ncalls' = ncalls + 1
    /\ UNCHANGED api_chat_history

\* The agent answers a suspended text call, which runs to its end.
TextComplete ==
    \E i \in 1..Len(requests), agent \in AgentOutcomes :
        /\ requests[i].kind = "text"
        /\ requests[i].state = "pending"
        /\ \E f \in {TextFinish(Store, requests[i].session_id, requests[i].message,
                                requests[i].risk_level, agent)} :
            /\ SetStore(f.st)
            /\ last' = [op |-> "text_complete", index |-> i,
                        session_id |-> requests[i].session_id,
                        agent |-> agent, response |-> f.response]
        /\ requests' = [requests EXCEPT ![i] = Completed(@, agent)]
        /\ UNCHANGED <<api_chat_history, ncalls>>

NextOverlap ==
    \/ AskIssue
    \/ AskComplete
    \/ TextIssue
    \/ TextComplete

SpecOverlap == Init /\ [][NextOverlap]_vars

\* ------------------------------------------------------- two sessions
\* The controller serving two sessions, its calls interleaved in any order.
\* The inputs are fewer than in Spec: one low-risk and one high-risk text, an
\* agent that fails or answers, an image provider and a transcriber that fail
\* or answer.
TwoSessions == {"A", "B"}
SessMessages == {MSG_LOW, MSG_HIGH}
SessAgents == {AgentFailure, [ok |-> TRUE, tool |-> "None", reply |-> <<"I hear you.">>]}
SessVisions == {v \in VisionOutcomes : v.kind \in {"ok", "raise"}}
SessTranscriptions == {t \in TranscriptionOutcomes : t.kind = "raise" \/ t.text = MSG_HIGH}
SessTexts == {None, Some(MSG_LOW)}

SessTextCall ==
    /\ ncalls < MaxCalls
    /\ \E sid \in TwoSessions, message \in SessMessages, agent \in SessAgents :
        \E r \in {process_text_interaction(Store, sid, message, agent)} :
            /\ SetStore(r.st)
            /\ last' = [op |-> "text", session_id |-> sid, message |-> message,
                        agent |-> agent, response |-> r.response]
    /\ ncalls' = ncalls + 1
    /\ UNCHANGED <<api_chat_history, requests>>

SessImageCall ==
    /\ ncalls < MaxCalls
    /\ \E sid \in TwoSessions, vision \in SessVisions :
        \E r \in {process_image_interaction(Store, sid, <<"drawing.png">>,
                                              DEFAULT_IMAGE_QUERY, vision)} :
            /\ SetStore(r.st)
            /\ last' = [op |-> "image", session_id |-> sid, vision |-> vision,
                        response |-> r.response]
    /\ ncalls' = ncalls + 1
    /\ UNCHANGED <<api_chat_history, requests>>

SessVoiceCall ==
    /\ ncalls < MaxCalls
    /\ \E sid \in TwoSessions, transcription_only \in BOOLEAN,
          trans \in SessTranscriptions :
        \E agent \in (IF trans.kind = "ok" /\ ~transcription_only
                      THEN SessAgents ELSE {AgentUnused}) :
        \E r \in {process_voice_interaction(Store, sid, <<"voice.wav">>,
                                              transcription_only, trans, agent)} :
            /\ SetStore(r.st)
            /\ last' = [op |-> "voice", session_id |-> sid,
                        transcription_only |-> transcription_only,
                        trans |-> trans, agent |-> agent, response |-> r.response]
    /\ ncalls' = ncalls + 1
    /\ UNCHANGED <<api_chat_history, requests>>

SessMultimodalCall ==
    \E text \in SessTexts, image_path \in ImagePaths, audio_path \in AudioPaths :
        /\ ncalls + CallWeight(text, image_path, audio_path) <= MaxCalls
        /\ ncalls' = ncalls + CallWeight(text, image_path, audio_path)
        /\ \E sid \in TwoSessions, query_type \in QueryTypes,
              vision \in (IF Truthy(image_path) THEN SessVisions ELSE {Unused}),
              trans \in (IF Truthy(audio_path) THEN SessTranscriptions ELSE {Unused}) :
            \E agent1 \in (IF trans.kind = "ok" THEN SessAgents ELSE {AgentUnused}),
               agent2 \in (IF Truthy(text) \/ Truthy(audio_path)
                           THEN SessAgents ELSE {AgentUnused}) :
            \E req \in {[text |-> text, image_path |-> image_path,
                         audio_path |-> audio_path, session_id |-> sid,
                         query_type |-> query_type]} :
                process_multimodal_interaction(req, vision, trans, agent1, agent2)

SessClearCall ==
    /\ \E sid \in TwoSessions :
        \E r \in {clear_session(Store, sid)} :
            /\ SetStore(r.st)
            /\ last' = [op |-> "clear", session_id |-> sid, result |-> r.result]
    /\ UNCHANGED <<api_chat_history, requests, ncalls>>

NextSessions ==
    \/ SessTextCall
    \/ SessImageCall
    \/ SessVoiceCall
    \/ SessMultimodalCall
    \/ SessClearCall

SpecSessions == Init /\ [][NextSessions]_vars

\* ------------------------------------------------ a provider that may not answer
\* The agent call of a suspended text call, seen from the event loop: the
\* provider answers or not, as it pleases; once it has answered, the event
\* loop resumes the task.  The handler sets no timeout on the await, so no
\* other step ends the wait.

\* The agent's answer to request i arrives and is kept with the suspended call.
AgentAnswers ==
    \E i \in 1..Len(requests), agent \in AgentOutcomes :
        /\ requests[i].kind = "text"
        /\ requests[i].state = "pending"
        /\ requests' = [requests EXCEPT ![i] =
                            [kind |-> @.kind, session_id |-> @.session_id,
                             message |-> @.message, risk_level |-> @.risk_level,
                             state |-> "answered", reply |-> @.reply,
                             answer |-> agent]]
        /\ last' = [op |-> "agent_answers", index |-> i,
                    session_id |-> requests[i].session_id, agent |-> agent]
        /\ UNCHANGED <<active_sessions, session_summaries, chat_history,
                       api_chat_history, ncalls>>

\* The event loop resumes a text call whose answer has arrived; the call runs
\* to its return.
TextResume ==
    \E i \in 1..Len(requests) :
        /\ requests[i].state = "answered"
        /\ \E f \in {TextFinish(Store, requests[i].session_id, requests[i].message,
                                requests[i].risk_level, requests[i].answer)} :
            /\ SetStore(f.st)
            /\ last' = [op |-> "text_complete", index |-> i,
                        session_id |-> requests[i].session_id,
                        agent |-> requests[i].answer, response |-> f.response]
        /\ requests' = [requests EXCEPT ![i] =
                            Completed(Request(@.kind, @.session_id, @.message,
                                              @.risk_level, @.state, @.reply),
                                      @.answer)]
        /\ UNCHANGED <<api_chat_history, ncalls>>

NextPending ==
    \/ TextIssue
    \/ AgentAnswers
    \/ TextResume

\* A task that can run is run: weak fairness of TextResume.  Nothing obliges
\* the caller to issue requests or the provider to answer.
SpecPending == Init /\ [][NextPending]_vars /\ WF_vars(TextResume)

\* ----------------------------------------- the risk assessor on its own
TextFragments ==
    { <<"I", " ">>,
      <<"k", "i", "l", "l">>,
      <<" ", "m", "y", "s", "e", "l", "f">>,
      <<"E", "N", "D", " ", "I", "T", " ", "A", "L", "L">>,
      <<"s", "t", "a", "n", "d">>,
      <<"a", "l", "o", "n", "e">>,
      <<"N", "o", " ", "P", "o", "i", "n", "t">>,
      <<"H", "o", "p", "e", "l", "e", "s", "s">>,
      <<"o", "k">>,
      <<"s", "u", "i", "c", "i", "d">>,
      <<"e">> }

\* The texts made of at most n fragments.
RECURSIVE Concats(_)
Concats(n) ==
    IF n = 0 THEN {<<>>}
    ELSE Concats(n - 1) \cup {a \o f : a \in Concats(n - 1), f \in TextFragments}

\* Arguments of the assessor that are strings.
RiskTexts == {PyStr(t) : t \in Concats(MaxFrags)}

\* RiskAssessment.assess_text_risk(text), called on its own with argument text
Assess(text) ==
    /\ last' = [op |-> "assess", text |-> text, result |-> assess_text_risk(text)]
    /\ UNCHANGED <<active_sessions, session_summaries, chat_history,
                   api_chat_history, requests, ncalls>>

\* The assessor called with a string, with None, with an int.
AssessCall ==
    \/ \E text \in RiskTexts : Assess(text)
    \/ Assess(PyNone)
    \/ Assess(PyInt(42))

NextRisk == AssessCall

SpecRisk == Init /\ [][NextRisk]_vars

\* ------------------------------------------------------------------ claims
\* Some keyword of the list occurs in the lower-cased string s.
HasKeyword(keywords, s) ==
    \E k \in Range(keywords) : Contains(k, Lower(s))

\* C2: assess_text_risk returns 5 for a string whose lower-cased form contains
\* a high-risk keyword (whether or not a medium-risk keyword occurs too),
\* otherwise 3 when it contains a medium-risk keyword, otherwise 1.
C2_RiskLevelByKeyword ==
    (last.op = "assess" /\ last.text.tag = "str") =>
        /\ ~last.result.raised
        /\ last.result.value =
              IF HasKeyword(high_risk_keywords, last.text.v) THEN 5
              ELSE IF HasKeyword(medium_risk_keywords, last.text.v) THEN 3
              ELSE 1

\* An upper-case text with a high-risk and a medium-risk keyword was assessed.
C2_Witness ==
    /\ last.op = "assess"
    /\ last.text.tag = "str"
    /\ HasKeyword(high_risk_keywords, last.text.v)
    /\ HasKeyword(medium_risk_keywords, last.text.v)
    /\ Lower(last.text.v) # last.text.v
    /\ last.result = Ret(5)

\* C7: the assessor never raises; it returns an integer for every argument,
\* and 1 for an argument that is not a string.
C7_AssessorTotal ==
    last.op = "assess" =>
        /\ ~last.result.raised
        /\ last.result.value \in 1..5
        /\ (last.text.tag # "str" => last.result.value = 1)

\* The risk level the assessor gives the string t.
RiskOf(t) == assess_text_risk(PyStr(t)).value

IsPrefix(p, s) == Len(p) <= Len(s) /\ SubSeq(s, 1, Len(p)) = p
IsSuffix(p, s) == Len(p) <= Len(s) /\ SubSeq(s, Len(s) - Len(p) + 1, Len(s)) = p

\* C1: the response of the text handler to a message that contains a high-risk
\* keyword has emergency_flag true and a content that includes the immediate
\* safety phrase, whatever the agent returns and also when the agent fails.
C1_HighRiskAlwaysSafetyPhrase ==
    (last.op = "text" /\ HasKeyword(high_risk_keywords, last.message)) =>
        /\ last.response.emergency_flag
        /\ Contains(IMMEDIATE_RESPONSE, last.response.content)

\* The transcription of a voice call, when the transcriber returned one.
Transcribed == last.trans.kind = "ok" /\ last.trans.text # <<>>

\* C3: the response of a text, audio or multimodal call has emergency_flag
\* true if and only if the triggering text (the message, the transcription)
\* has risk >= 4 or a contributing sub-response carries the flag.
C3_FlagIffRiskOrSubFlag ==
    /\ last.op = "text" =>
          (last.response.emergency_flag <=> RiskOf(last.message) >= 4)
    /\ (last.op = "voice" /\ Transcribed) =>
          (last.response.emergency_flag <=> RiskOf(last.trans.text) >= 4)
    /\ last.op = "multimodal" =>
          (last.response.emergency_flag <=>
              \E i \in 1..Len(last.fragments) : last.fragments[i].response.emergency_flag)

\* The risk level of session sid before a step: that of a fresh session when
\* the step creates it.
RiskBefore(sid) ==
    IF sid \in DOMAIN active_sessions THEN active_sessions[sid].risk_level
    ELSE INITIAL_RISK

\* The highest risk among the strings of the set texts, and at least floor.
MaxRisk(floor, texts) ==
    IF \E t \in texts : RiskOf(t) > floor
    THEN CHOOSE m \in {RiskOf(t) : t \in texts} : \A t \in texts : RiskOf(t) <= m
    ELSE floor

\* The texts that the call recorded in last' assessed for its session.
AssessedTexts ==
    CASE last'.op = "text" -> {last'.message}
      [] last'.op = "voice" ->
            IF last'.trans.kind = "ok" /\ last'.trans.text # <<>>
            THEN {last'.trans.text} ELSE {}
      [] last'.op = "multimodal" ->
            (IF last'.trans.kind = "ok" /\ last'.trans.text # <<>>
             THEN {last'.trans.text} ELSE {})
            \cup (IF Truthy(last'.text_input) THEN {last'.text_input[1]} ELSE {})
      [] OTHER -> {}

\* C4: while a session lives its risk level never decreases; a text, image,
\* audio or multimodal call leaves it at the maximum of its level before the
\* call and the levels of the texts the call assessed.
C4_SessionRiskMonotonic ==
    [][\A sid \in DOMAIN active_sessions' :
          /\ sid \in DOMAIN active_sessions =>
                active_sessions'[sid].risk_level >= active_sessions[sid].risk_level
          /\ (last'.op \in {"text", "image", "voice", "multimodal"}
                /\ last'.session_id = sid) =>
                active_sessions'[sid].risk_level = MaxRisk(RiskBefore(sid), AssessedTexts)
      ]_vars

\* A session that had reached level 5 answered a low-risk message and is still
\* at level 5.
C4_Witness ==
    /\ last.op = "text"
    /\ last.message = MSG_LOW
    /\ last.agent.ok
    /\ "s1" \in DOMAIN active_sessions
    /\ active_sessions["s1"].risk_level = 5

\* The modalities a multimodal call processes, in the order of the code.
ProcessedModalities ==
    (IF Truthy(last.request.image_path) THEN <<"image">> ELSE <<>>)
    \o (IF Truthy(last.request.audio_path) THEN <<"audio">> ELSE <<>>)
    \o (IF Truthy(last.text_input) THEN <<"text">> ELSE <<>>)

\* The provider of fragment f of the multimodal call failed.
FragmentFailed(f) ==
    \/ f.modality = "image" /\ last.vision.kind # "ok"
    \/ f.modality = "audio" /\ (~Transcribed \/ ~last.agent1.ok)
    \/ f.modality = "text" /\ ~last.agent2.ok

C6_CrisisAndNormalBranch ==
    (last.op = "text" /\ last.agent.ok) =>
        IF RiskOf(last.message) >= 4
        THEN /\ IsPrefix(IMMEDIATE_RESPONSE, last.response.content)
             /\ IsSuffix(last.agent.reply, last.response.content)
             /\ Len(last.response.content) > Len(last.agent.reply)
             /\ last.response.response_type = CRISIS_INTERVENTION
             /\ last.response.confidence = 95
        ELSE /\ last.response.content = last.agent.reply
             /\ last.response.response_type = CONVERSATION
             /\ ~last.response.emergency_flag
             /\ Len(last.response.tools_used) = 1
             /\ last.response.confidence = 80

\* A medium-risk message was answered by the agent.
C6_Witness ==
    /\ last.op = "text"
    /\ last.agent.ok
    /\ RiskOf(last.message) = 3
    /\ last.response.content = last.agent.reply

\* A double line break.
LINE_BREAKS == <<"\n\n">>

\* The labelled fragment of modality m built from the sub-response r.
Labelled(m, r) ==
    (CASE m = "image" -> <<"Image Analysis: ">>
       [] m = "audio" -> <<"Voice Analysis: ">>
       [] OTHER -> <<"AI Response: ">>) \o r.content

\* The labelled fragments of the multimodal call, one per processed modality,
\* in the order image, audio, text.
LabelledInOrder ==
    LET byModality(m) ==
            last.fragments[CHOOSE i \in 1..Len(last.fragments) :
                                last.fragments[i].modality = m].response
    IN  [i \in 1..Len(ProcessedModalities) |->
            Labelled(ProcessedModalities[i], byModality(ProcessedModalities[i]))]

\* C8: the content of a multimodal response is the labelled fragments of the
\* processed modalities in the order image, audio, text, joined by a double
\* line break.
C8_FragmentsInOrderLineBreaks ==
    (last.op = "multimodal" /\ last.fragments # <<>>) =>
        /\ \A m \in Range(ProcessedModalities) :
              \E i \in 1..Len(last.fragments) : last.fragments[i].modality = m
        /\ last.response.content = Join(LabelledInOrder, LINE_BREAKS)

\* The highest of the confidences of the fragments, 0 when there is none.
MaxConfidence(fragments) ==
    IF fragments = <<>> THEN 0
    ELSE CHOOSE c \in {fragments[i].response.confidence : i \in 1..Len(fragments)} :
            \A i \in 1..Len(fragments) : fragments[i].response.confidence <= c

\* C9: the response of a multimodal call has the maximum confidence of its
\* fragments, the logical OR of their emergency flags, and as tools the union
\* of their tool lists.
C9_MultimodalAggregates ==
    last.op = "multimodal" =>
        /\ last.response.confidence = MaxConfidence(last.fragments)
        /\ last.response.emergency_flag <=>
              \E i \in 1..Len(last.fragments) : last.fragments[i].response.emergency_flag
        /\ last.response.tools_used =
              UNION {Range(last.fragments[i].response.tools_used) :
                        i \in 1..Len(last.fragments)}

\* An audio-only call whose first agent call failed and whose second used a
\* tool: the tools of the audio pipeline and of the derived text pipeline are
\* all reported, with the confidence and the flag of the stronger fragment.
C9_Witness ==
    /\ last.op = "multimodal"
    /\ last.request.text = None
    /\ last.request.image_path = None
    /\ Len(last.fragments) = 2
    /\ ~last.agent1.ok /\ last.agent2.ok
    /\ last.response.tools_used =
          {"process_voice_message", "error_handler", last.agent2.tool}
    /\ last.fragments[1].response.confidence < last.fragments[2].response.confidence
    /\ last.response.confidence = last.fragments[2].response.confidence
    /\ last.response.emergency_flag

\* The content of the last message of the list handed to the agent by the last
\* agent call of the call.
LastAgentInput ==
    LET messages == last.agent_calls[Len(last.agent_calls)]
    IN  messages[Len(messages)].content

\* The last entry of the text handler in the log of the session.
LastTextEntry ==
    LET log == active_sessions[last.session_id].conversation_history
        i == CHOOSE j \in 1..Len(log) :
                /\ log[j].modality = "text"
                /\ \A k \in (j + 1)..Len(log) : log[k].modality # "text"
    IN  log[i]

\* C10: in a multimodal call with audio and without text the transcription of
\* the audio step is the input of the text step; with text supplied, the
\* supplied text is.
C10_TranscriptionFeedsTextStep ==
    (last.op = "multimodal" /\ Truthy(last.request.audio_path) /\ Transcribed) =>
        LET expected == IF Truthy(last.request.text) THEN last.request.text[1]
                        ELSE last.trans.text
        IN  /\ last.text_input = Some(expected)
            /\ last.fragments[Len(last.fragments)].modality = "text"
            /\ LastAgentInput = expected
            /\ last.agent2.ok => LastTextEntry.content = expected

\* An audio-only call: the high-risk transcription went through the text step.
C10_Witness ==
    /\ last.op = "multimodal"
    /\ last.request.text = None
    /\ Truthy(last.request.audio_path)
    /\ Transcribed
    /\ last.trans.text = MSG_HIGH
    /\ last.agent2.ok
    /\ LastAgentInput = MSG_HIGH
    /\ last.fragments[Len(last.fragments)].response.response_type = CRISIS_INTERVENTION

\* ------------------------------------------------------------------- C11
\* C11: a multimodal call with no text, no image reference and no audio
\* reference returns the fixed "no input" response: no fragment was composed,
\* the agent was not called, the tool list is empty, the flag is false and the
\* response is none of the handlers' error responses.
C11_NoInputResponse ==
    (/\ last.op = "multimodal"
     /\ ~Truthy(last.request.text)
     /\ ~Truthy(last.request.image_path)
     /\ ~Truthy(last.request.audio_path)) =>
        /\ last.response.content = <<"I didn't receive any input to process.">>
        /\ last.response.response_type = CONVERSATION
        /\ last.fragments = <<>>
        /\ last.agent_calls = <<>>
        /\ last.response.tools_used = {}
        /\ ~last.response.emergency_flag
        /\ "error_handler" \notin last.response.tools_used

\* A call without any input on a session that an earlier call had created.
C11_Witness ==
    /\ last.op = "multimodal"
    /\ last.request.text = None
    /\ last.request.image_path = None
    /\ last.request.audio_path = None
    /\ last.response.content = NO_INPUT
    /\ Len(active_sessions[last.session_id].conversation_history) >= 2

\* ------------------------------------------------------------------- C12
\* The premium provider raised in the last voice generation.
PremiumRaised ==
    /\ last.op = "generate_voice"
    /\ last.use_premium
    /\ last.eleven = "raise"

C13_GetOrCreateIdempotent ==
    \A sid \in SessionIds, c1 \in SessionTypes, c2 \in SessionTypes :
        LET once == _get_or_create_session(Store, sid, c1)
            twice == _get_or_create_session(once, sid, c2)
        IN  /\ twice = once
            /\ get_session(twice, sid) = get_session(once, sid)
            /\ get_session(once, sid) # None
            /\ sid \in DOMAIN active_sessions =>
                  /\ once = Store
                  /\ once.active_sessions[sid].session_type =
                        active_sessions[sid].session_type
            /\ chat_history = once.chat_history \/ sid \notin DOMAIN active_sessions

\* A multimodal call of category "therapy" went through _get_or_create_session
\* on a session created as "general", which had a log, a raised risk level and
\* an agent conversation: all are kept.
C13_Witness ==
    /\ last.op = "multimodal"
    /\ last.request.query_type = "therapy"
    /\ last.session_id \in DOMAIN active_sessions
    /\ active_sessions[last.session_id].session_type = "general"
    /\ active_sessions[last.session_id].risk_level = HIGH_RISK
    /\ Len(active_sessions[last.session_id].conversation_history) >= 2
    /\ Len(chat_history[last.session_id]) >= 3

\* ------------------------------------------------------------------- C14
\* C14: clear_session on an existing session empties its log and keeps the
\* session in the store under the same identifier and category.
C14_ClearKeepsSession ==
    [][(last'.op = "clear" /\ last'.session_id \in DOMAIN active_sessions) =>
          /\ last'.session_id \in DOMAIN active_sessions'
          /\ active_sessions'[last'.session_id].conversation_history = <<>>
          /\ active_sessions'[last'.session_id].session_id = last'.session_id
          /\ active_sessions'[last'.session_id].session_type =
                active_sessions[last'.session_id].session_type
      ]_vars

\* ------------------------------------------------------------------- C15
\* C15: for an identifier that is not in the store, end_session returns None
\* and clear_session returns False, and both leave the store as it is: the
\* sessions, their logs and risk levels, the summaries and the agent's
\* conversation logs.
C15_UnknownSessionNoOp ==
    /\ \A sid \in ClearIds :
          sid \notin DOMAIN active_sessions =>
              /\ end_session(Store, sid) = [st |-> Store, summary |-> None]
              /\ clear_session(Store, sid) = [st |-> Store, result |-> FALSE]
    /\ (last.op = "clear" /\ ~last.result) =>
          last.session_id \notin DOMAIN active_sessions

\* clear_session was called with an unknown id and returned False while the
\* store held another session with a log and a raised risk level, and the
\* summary and the agent log of a session cleared before.
C15_Witness ==
    /\ last.op = "clear"
    /\ last.session_id = "never-seen-id"
    /\ ~last.result
    /\ "s1" \in DOMAIN active_sessions
    /\ active_sessions["s1"].risk_level = HIGH_RISK
    /\ active_sessions["s1"].conversation_history # <<>>
    /\ "s1" \in DOMAIN session_summaries

\* ------------------------------------------------------------------- C16
\* The turns that the requests of one kind for session sid put into the
\* agent's conversation log when they are served one after the other in the
\* order issued: each message, followed by its reply once the request is done
\* (the crisis branch of the text handler does not append the reply; an ask
\* request carries risk level 0).
RECURSIVE IssuedTurns(_, _, _)
IssuedTurns(reqs, kind, sid) ==
    IF reqs = <<>> THEN <<>>
    ELSE LET r == Head(reqs)
         IN  (IF r.kind = kind /\ r.session_id = sid
              THEN <<HumanMessage(r.message)>>
                   \o (IF r.state = "done" /\ r.risk_level < EMERGENCY_THRESHOLD
                       THEN <<HumanMessage(r.reply)>> ELSE <<>>)
              ELSE <<>>)
             \o IssuedTurns(Tail(reqs), kind, sid)

\* The messages of the text requests for session sid that are done, in the
\* order issued.
RECURSIVE IssuedDone(_, _)
IssuedDone(reqs, sid) ==
    IF reqs = <<>> THEN <<>>
    ELSE LET r == Head(reqs)
         IN  (IF r.kind = "text" /\ r.session_id = sid /\ r.state = "done"
              THEN <<r.message>> ELSE <<>>)
             \o IssuedDone(Tail(reqs), sid)

\* C16: when requests for one session overlap, the session's logs hold the
\* turns in the order the requests were issued, each message directly followed
\* by its reply: the conversation of the ask endpoint, the agent's conversation
\* of the controller, and the session log of the controller.
C16_OverlapKeepsIssueOrder ==
    /\ \A sid \in DOMAIN api_chat_history :
          api_chat_history[sid] =
              <<SystemMessage>> \o IssuedTurns(requests, "ask", sid)
    /\ \A sid \in DOMAIN chat_history :
          chat_history[sid] =
              <<SystemMessage>> \o IssuedTurns(requests, "text", sid)
    /\ \A sid \in DOMAIN active_sessions :
          LET log == active_sessions[sid].conversation_history
          IN  [i \in 1..Len(log) |-> log[i].content] = IssuedDone(requests, sid)

\* ------------------------------------------------------------------- C17
\* C17: after ask calls made one after the other, every call has succeeded, the
\* last one returned the agent's reply and tool name, and the conversation of
\* each session is the system prompt followed, in call order, by each message
\* and directly after it its reply.
C17_AskLogAlternates ==
    /\ \A i \in 1..Len(requests) : requests[i].state = "done"
    /\ last.op = "ask" =>
          /\ ~last.outcome.raised
          /\ last.outcome.value =
                [response |-> last.agent.reply, tool_called |-> last.agent.tool]
    /\ \A sid \in DOMAIN api_chat_history :
          api_chat_history[sid] =
              <<SystemMessage>> \o IssuedTurns(requests, "ask", sid)

\* ------------------------------------------------------------------- C18
\* The number of turns in the log of session sid in the store st; none for a
\* session that does not exist yet.
LogLen(sessions, sid) ==
    IF sid \in DOMAIN sessions THEN Len(sessions[sid].conversation_history) ELSE 0

\* C18: a multimodal call adds exactly one turn to the session log, the
\* composite turn, whatever inputs it carries.
C18_OneCompositeTurn ==
    [][last'.op = "multimodal" =>
          /\ LogLen(active_sessions', last'.session_id) =
                LogLen(active_sessions, last'.session_id) + 1
          /\ LET log == active_sessions'[last'.session_id].conversation_history
             IN  log[Len(log)].modality = "multimodal"
      ]_vars

\* ------------------------------------------------------------------- C19
\* The contents of the turns of a log whose text was assessed: the messages
\* of the text handler and the transcriptions of the audio handler.
AssessedTurns(log) ==
    {log[i].content : i \in {j \in 1..Len(log) : log[j].modality \in {"text", "audio"}}}

\* C19: in every state the risk level of a session is the maximum assessed
\* risk of the turns in its log, and 1 when the log holds none: no turn that
\* was not logged has raised it.
C19_RiskMatchesLog ==
    \A sid \in DOMAIN active_sessions :
        active_sessions[sid].risk_level =
            MaxRisk(INITIAL_RISK, AssessedTurns(active_sessions[sid].conversation_history))

\* ------------------------------------------------------------------- C20
\* C20: every call of the text handler hands the conversation to the agent
\* exactly once, with the message as its last entry, for a message of risk 4
\* or more as for any other.
C20_AgentAlwaysInvoked ==
    last.op = "text" =>
        /\ Len(last.agent_calls) = 1
        /\ LET messages == last.agent_calls[1]
           IN  /\ messages[1] = SystemMessage
               /\ messages[Len(messages)] = HumanMessage(last.message)

\* A high-risk message: the crisis branch called the agent and carries its
\* reply.
C20_Witness ==
    /\ last.op = "text"
    /\ RiskOf(last.message) >= EMERGENCY_THRESHOLD
    /\ last.agent.ok
    /\ last.response.response_type = CRISIS_INTERVENTION
    /\ Len(last.agent_calls) = 1
    /\ IsSuffix(last.agent.reply, last.response.content)

\* ------------------------------------------------------------------- C21
\* The call recorded in last' is an audio call with transcription_only set
\* whose transcription succeeded.
TranscriptionOnlyDone ==
    /\ last'.op = "voice"
    /\ last'.transcription_only
    /\ last'.trans.kind = "ok"
    /\ last'.trans.text # <<>>

\* C21: an audio call with transcription_only and a successful transcription
\* answers with the transcription itself at confidence 0.9 and processes
\* nothing further: the agent is not called and the agent's conversation log
\* of the session is as before (the system prompt alone for a new session).
C21_TranscriptionOnly ==
    [][TranscriptionOnlyDone =>
          /\ last'.response.content = last'.trans.text
          /\ last'.response.confidence = 90
          /\ last'.response.response_type = VOICE_THERAPY
          /\ last'.response.tools_used = <<"transcription_only">>
          /\ last'.agent_calls = <<>>
          /\ last'.analysis.transcription = last'.trans.text
          /\ chat_history'[last'.session_id] =
                IF last'.session_id \in DOMAIN chat_history
                THEN chat_history[last'.session_id] ELSE <<SystemMessage>>
      ]_vars

\* A transcription-only call on a session that already had a conversation
\* with the agent.
C21_Witness ==
    /\ last.op = "voice"
    /\ last.transcription_only
    /\ last.trans.text = MSG_HIGH
    /\ last.response.content = MSG_HIGH
    /\ last.response.confidence = CONF_TRANSCRIPTION
    /\ Len(chat_history[last.session_id]) >= 3

\* ------------------------------------------------------------------- C22
\* What the text handler answers to the transcription of the last audio call
\* with the agent outcome of that call.
InnerTextResponse ==
    process_text_interaction(Store, last.session_id, last.trans.text, last.agent).response

\* C22: an audio call without transcription_only hands the transcription to
\* the text handler as its message and answers with a voice-therapy response
\* that has the content, confidence and emergency flag of the text response
\* and the tool list "process_voice_message" followed by the text response's.
C22_VoiceWrapsTextResponse ==
    (last.op = "voice" /\ ~last.transcription_only /\ Transcribed) =>
        /\ Len(last.agent_calls) = 1
        /\ LastAgentInput = last.trans.text
        /\ last.response.response_type = VOICE_THERAPY
        /\ last.response.content = InnerTextResponse.content
        /\ last.response.confidence = InnerTextResponse.confidence
        /\ last.response.emergency_flag = InnerTextResponse.emergency_flag
        /\ last.response.tools_used =
              <<"process_voice_message">> \o InnerTextResponse.tools_used
        /\ last.analysis.therapeutic_response = InnerTextResponse.content
        /\ (last.agent.ok /\ RiskOf(last.trans.text) >= EMERGENCY_THRESHOLD) =>
              /\ last.response.emergency_flag
              /\ last.response.confidence = 95
              /\ last.response.tools_used =
                    <<"process_voice_message", last.agent.tool, "emergency_assessment">>

\* A spoken high-risk message went through the crisis branch of the text
\* handler.
C22_Witness ==
    /\ last.op = "voice"
    /\ ~last.transcription_only
    /\ last.trans.text = MSG_HIGH
    /\ last.agent.ok
    /\ last.agent.tool = "get_daily_affirmation"
    /\ last.response.emergency_flag
    /\ last.response.tools_used[1] = "process_voice_message"
    /\ IsPrefix(IMMEDIATE_RESPONSE, last.response.content)

\* ------------------------------------------------------------------- C23
\* C23: the session log is append-only.  While a session stays in the store,
\* every step leaves its former log as a prefix of its new log: no turn is
\* removed, reordered or changed.
C23_LogAppendOnly ==
    [][\A sid \in DOMAIN active_sessions \cap DOMAIN active_sessions' :
          IsPrefix(active_sessions[sid].conversation_history,
                   active_sessions'[sid].conversation_history)
      ]_vars

\* A multimodal call with audio appended its turns behind the image turn
\* of an earlier call.
C23_Witness ==
    /\ last.op = "multimodal"
    /\ last.session_id \in DOMAIN active_sessions
    /\ LET log == active_sessions[last.session_id].conversation_history
       IN  /\ Len(log) >= 4
           /\ log[1].modality = "image"
           /\ log[Len(log)].modality = "multimodal"

\* ------------------------------------------------------------------- C24
\* All that the controller holds for session id sid: the session (its log,
\* risk level and category), its summary, the agent's conversation log.
SessionView(sid) ==
    <<get_session(Store, sid),
      IF sid \in DOMAIN session_summaries THEN Some(session_summaries[sid]) ELSE None,
      IF sid \in DOMAIN chat_history THEN Some(chat_history[sid]) ELSE None>>

\* C24: a text, image, audio, multimodal or clear call for one session leaves
\* all that is held for any other session as it was, in whatever order the
\* calls for the two sessions follow each other.
C24_SessionsIndependent ==
    [][\A other \in TwoSessions :
          other # last'.session_id => SessionView(other)' = SessionView(other)
      ]_vars

\* Session A was cleared while session B, at risk level 5 with a log and a
\* conversation, stayed as it was.
C24_Witness ==
    /\ last.op = "clear"
    /\ last.session_id = "A"
    /\ last.result
    /\ "B" \in DOMAIN active_sessions
    /\ active_sessions["B"].risk_level = HIGH_RISK
    /\ active_sessions["B"].conversation_history # <<>>
    /\ Len(chat_history["B"]) >= 2

\* ------------------------------------------------------------------- C25
\* C25: ending an active session (clear_session does it through end_session)
\* stores a summary whose turn count is the length of the session log, whose
\* modalities are the distinct modalities of the logged turns and whose tools
\* are the distinct tools used during the session, among them the tool that
\* the agent called in the text call just before; the session is then no
\* longer in the active store.
C25_EndSummary ==
    [][(last'.op = "clear" /\ last'.result) =>
          LET sid == last'.session_id
              log == active_sessions[sid].conversation_history
              summary == session_summaries'[sid]
          IN  /\ sid \notin DOMAIN active_sessions'
              /\ summary.session_id = sid
              /\ summary.interaction_count = Len(log)
              /\ summary.modalities_used = {log[i].modality : i \in 1..Len(log)}
              /\ (/\ last.op = "text"
                  /\ last.session_id = sid
                  /\ last.agent.ok
                  /\ last.agent.tool # "None") =>
                     last.agent.tool \in summary.tools_utilized
      ]_vars

\* ------------------------------------------------------------------- C26
\* C26: every call returns.  A text call that is suspended at its agent call
\* eventually returns a response (the agent's, or the degraded one when the
\* wait is cut short), however long the provider takes.
C26_EveryCallReturns ==
    \A i \in 1..MaxCalls :
        (Len(requests) >= i /\ requests[i].state = "pending")
            ~> (Len(requests) >= i /\ requests[i].state \in {"done", "failed"})

\* ------------------------------------------------------------------- C27
\* The agent's conversation log of session sid before a step: the system
\* prompt alone when the step creates the session.
ChatHistoryBefore(sid) ==
    IF sid \in DOMAIN chat_history THEN chat_history[sid] ELSE <<SystemMessage>>

\* C27: a text call that succeeds, in the crisis branch as in the normal
\* branch, extends the agent's conversation log of its session by exactly the
\* user's message followed by the agent's reply.
C27_LogGrowsByMessageAndReply ==
    [][(last'.op = "text" /\ last'.response # TextErrorResponse) =>
          chat_history'[last'.session_id] =
              ChatHistoryBefore(last'.session_id)
                  \o <<HumanMessage(last'.message), HumanMessage(last'.agent.reply)>>
      ]_vars

\* ------------------------------------------------------------------- C28
\* How many times the user said u in the multimodal call recorded in last:
\* as the supplied text, as the transcription of the audio.
Uttered(u) ==
    (IF last.request.text = Some(u) /\ u # <<>> THEN 1 ELSE 0)
    + (IF Truthy(last.request.audio_path) /\ Transcribed /\ last.trans.text = u
       THEN 1 ELSE 0)

\* The number of agent calls of the call recorded in last whose newest message
\* is the utterance u.
Submissions(u) ==
    Cardinality({i \in 1..Len(last.agent_calls) :
                    LET messages == last.agent_calls[i]
                    IN  messages[Len(messages)] = HumanMessage(u)})

\* C28: within one multimodal call each utterance of the user (the supplied
\* text, the transcription) goes to the agent at most once; an audio-only
\* call calls the agent at most once for its transcription.
C28_EachUtteranceOnce ==
    last.op = "multimodal" =>
        \A u \in Messages : Uttered(u) > 0 => Submissions(u) <= Uttered(u)

\* ------------------------------------------------------------------- C29
\* The multimodal call recorded in last had audio whose transcription failed
\* and no text.
AudioFailedWithoutText ==
    /\ last.op = "multimodal"
    /\ Truthy(last.request.audio_path)
    /\ ~Transcribed
    /\ ~Truthy(last.request.text)

\* C29: when the audio step of a multimodal call fails and no text was
\* supplied, the sentinel that stands for the transcription does not become
\* the text input: the text step is skipped and the agent never receives the
\* sentinel as a message of the user.
C29_SentinelNotSubstituted ==
    AudioFailedWithoutText =>
        /\ last.text_input # Some(VOICE_ERROR_SENTINEL)
        /\ \A i \in 1..Len(last.fragments) : last.fragments[i].modality # "text"
        /\ \A i \in 1..Len(last.agent_calls) :
              \A j \in 1..Len(last.agent_calls[i]) :
                  last.agent_calls[i][j] # HumanMessage(VOICE_ERROR_SENTINEL)

\* ------------------------------------------------------------------- C30
\* C30: every session in the store has a conversation log of the agent that
\* starts with the system prompt, whatever calls and clears came before; a
\* text call whose agent answers therefore never ends in the error response
\* for want of the log.
C30_ActiveSessionHasChatHistory ==
    /\ \A sid \in DOMAIN active_sessions :
          /\ sid \in DOMAIN chat_history
          /\ Len(chat_history[sid]) >= 1
          /\ chat_history[sid][1] = SystemMessage
    /\ (last.op = "text" /\ last.agent.ok) => last.response # TextErrorResponse

\* A text call on a session that was cleared before and created again: its
\* log starts over from the system prompt.
C30_Witness ==
    /\ last.op = "text"
    /\ last.agent.ok
    /\ last.session_id \in DOMAIN session_summaries
    /\ last.session_id \in DOMAIN active_sessions
    /\ chat_history[last.session_id] =
          <<SystemMessage, HumanMessage(last.message), HumanMessage(last.agent.reply)>>

====
